---- MODULE Spec2Model ----
(***************************************************************************)
(* Model of sentry.digests.notifications: the digest key codec, the state  *)
(* fetch/attach step, the Pipeline engine and build_digest.                *)
(*                                                                         *)
(* Python objects are modelled by value.  A dict keyed by ids is a TLA+    *)
(* function; the two-level defaultdict built by the grouping fold is a     *)
(* sequence of entries [k, v] kept in insertion order, and every place the *)
(* code iterates it goes through Items, which yields insertion order on a  *)
(* runtime whose dicts are insertion ordered and hash order otherwise (the *)
(* module is written for Python 2 and 3: six, __future__).                 *)
(***************************************************************************)
EXTENDS Integers, Sequences, FiniteSets, TLC

\* ------------------------------------------------------------------ bounds
MaxRecords == 2      \* longest record batch drawn by Init
MaxCount == 1        \* largest counter value held by tsdb / a count mapping
MaxRuns == 2         \* invocations recorded per behaviour
MaxProjectId == 12   \* projects 1..MaxProjectId exist
MaxTargetId == 2     \* target identifiers -1..MaxTargetId, or none

GroupIds == {1, 2}
RuleIds == {1, 2}
Statuses == {"UNRESOLVED", "RESOLVED"}
\* rule id lists a record may carry (event_to_record keeps the order given)
RuleLists == {<<>>, <<1>>, <<2>>, <<1, 2>>, <<2, 1>>}

VARIABLES
    Group_objects,   \* the Group table: id -> row
    Rule_objects,    \* the Rule table: id -> row
    tsdb,            \* [events, users]: id -> counter over the batch's window
    state,           \* the state argument of build_digest (given or None)
    records,         \* the caller's batch; events gain a group back reference
    dict_ordered,    \* whether the runtime's dicts iterate in insertion order
    pipeline,        \* the Pipeline built by the last build_digest
    attached,        \* the bundle attach_state returned (the stages close over it)
    results,         \* outcome of each invocation so far, oldest first
    key,             \* the digest key last encoded (a string, as its characters)
    args,            \* what it was encoded from
    decoded          \* what the last decoder call returned or raised

vars == <<Group_objects, Rule_objects, tsdb, state, records, dict_ordered,
          pipeline, attached, results, key, args, decoded>>

digest_vars == <<Group_objects, Rule_objects, tsdb, state, records, dict_ordered,
                 pipeline, attached, results>>

key_vars == <<key, args, decoded>>

\* ------------------------------------------------------------- helpers
EmptyDict == [x \in {} |-> 0]

Range(s) == {s[i] : i \in 1..Len(s)}

Perms(S) == {p \in [1..Cardinality(S) -> S] : \A i, j \in 1..Cardinality(S) : p[i] = p[j] => i = j}

\* six.iteritems(d) for a dict keyed by ids: the keys in the order `perm` gives
IterKeys(d, perm) == SelectSeq(perm, LAMBDA k : k \in DOMAIN d)

\* Python's comparison of two tuples of integers of one length
RECURSIVE TupleLess(_, _)
TupleLess(a, b) ==
    IF a = <<>> \/ b = <<>> THEN Len(a) < Len(b)
    ELSE IF Head(a) # Head(b) THEN Head(a) < Head(b)
    ELSE TupleLess(Tail(a), Tail(b))

\* --------------------------------------------------------------- key codec
\* Strings are sequences of characters.
TARGETED_MAIL_ACTION_SYMBOL == <<"t", "a", "r", "g", "e", "t", "e", "d", "_", "m", "a", "i", "l">>

DigitChars == <<"0", "1", "2", "3", "4", "5", "6", "7", "8", "9">>

\* "{}".format(n) for an integer n
RECURSIVE FormatNat(_)
FormatNat(n) ==
    IF n < 10 THEN <<DigitChars[n + 1]>>
    ELSE FormatNat(n \div 10) \o <<DigitChars[(n % 10) + 1]>>

FormatInt(n) == IF n < 0 THEN <<"-">> \o FormatNat(0 - n) ELSE FormatNat(n)

IsDigits(s) == s # <<>> /\ \A i \in 1..Len(s) : s[i] \in Range(DigitChars)

DigitValue(c) == (CHOOSE d \in 1..10 : DigitChars[d] = c) - 1

RECURSIVE ParseNat(_)
ParseNat(s) ==
    IF Len(s) = 1 THEN DigitValue(s[1])
    ELSE 10 * ParseNat(SubSeq(s, 1, Len(s) - 1)) + DigitValue(s[Len(s)])

\* int(s): an optional sign and decimal digits, anything else is a ValueError
ParseInt(s) ==
    IF IsDigits(s) THEN [ok |-> TRUE, value |-> ParseNat(s)]
    ELSE IF s # <<>> /\ s[1] = "-" /\ IsDigits(Tail(s))
         THEN [ok |-> TRUE, value |-> 0 - ParseNat(Tail(s))]
    ELSE IF s # <<>> /\ s[1] = "+" /\ IsDigits(Tail(s))
         THEN [ok |-> TRUE, value |-> ParseNat(Tail(s))]
    ELSE [ok |-> FALSE, value |-> 0]

\* Place of the first c in s, 0 when there is none
IndexOf(s, c) ==
    IF \E i \in 1..Len(s) : s[i] = c
    THEN CHOOSE i \in 1..Len(s) : s[i] = c /\ \A j \in 1..(i - 1) : s[j] # c
    ELSE 0

\* s.split(":", maxsplit); maxsplit = -1 splits at every colon
RECURSIVE Split(_, _)
Split(s, maxsplit) ==
    IF maxsplit = 0 \/ IndexOf(s, ":") = 0 THEN <<s>>
    ELSE <<SubSeq(s, 1, IndexOf(s, ":") - 1)>>
         \o Split(SubSeq(s, IndexOf(s, ":") + 1, Len(s)), maxsplit - 1)

\* The plugin registry and the Project table
\* The slugs of the registered plugins
Slugs ==
    {<<"m", "a", "i", "l">>,
     <<"a">>,
     <<"a", ":", "b">>,
     <<"t", "a", "r", "g", "e", "t", "e", "d">>,
     TARGETED_MAIL_ACTION_SYMBOL}

Projects == 1..MaxProjectId

TargetTypes == {<<"T", "e", "a", "m">>, <<"M", "e", "m", "b", "e", "r">>, <<"a", ":", "b">>}

NoTarget == [given |-> FALSE, id |-> 0]
TargetIds == {NoTarget} \cup [given : {TRUE}, id : (0 - 1)..MaxTargetId]

MailAdapter == <<"MailAdapter">>

Decoded(fault, plugin, project, target_type, target_identifier) ==
    [fault |-> fault, plugin |-> plugin, project |-> project,
     target_type |-> target_type, target_identifier |-> target_identifier]

Raised(fault) == Decoded(fault, <<>>, 0, <<>>, 0)

\* Project.objects.get(pk=project_id) for a pk given as a string
Project_get(project_id) ==
    IF ~ParseInt(project_id).ok THEN [fault |-> "ValueError", id |-> 0]
    ELSE IF ParseInt(project_id).value \notin Projects THEN [fault |-> "DoesNotExist", id |-> 0]
    ELSE [fault |-> "ok", id |-> ParseInt(project_id).value]

is_targeted_action_key(k) ==
    LET tokens == Split(k, 0 - 1) IN
    Cardinality({idx \in 1..Len(tokens) :
                    idx = 1 /\ tokens[idx] = TARGETED_MAIL_ACTION_SYMBOL}) = 1

split_key_for_targeted_action(k) ==
    LET parts == Split(k, 4) IN
    IF Len(parts) # 5 THEN Raised("ValueError")
    ELSE IF Project_get(parts[3]).fault # "ok" THEN Raised(Project_get(parts[3]).fault)
    ELSE IF ~ParseInt(parts[5]).ok THEN Raised("ValueError")
    ELSE Decoded("ok", MailAdapter, Project_get(parts[3]).id, parts[4], ParseInt(parts[5]).value)

split_key(k) ==
    LET parts == Split(k, 2) IN
    IF Len(parts) # 3 THEN Raised("ValueError")
    ELSE IF parts[1] \notin Slugs THEN Raised("KeyError")
    ELSE IF Project_get(parts[3]).fault # "ok" THEN Raised(Project_get(parts[3]).fault)
    ELSE Decoded("ok", parts[1], Project_get(parts[3]).id, <<>>, 0)

\* The targeted encoder as it would be if it wrote an absent target id as it is
unsplit_key_for_targeted_action_unsanitised(project, target_type, target_id) ==
    TARGETED_MAIL_ACTION_SYMBOL \o <<":", "p", ":">> \o FormatInt(project) \o <<":">>
        \o target_type \o <<":">>
        \o (IF target_id.given THEN FormatInt(target_id.id) ELSE <<"N", "o", "n", "e">>)

unsplit_key_for_targeted_action(project, target_type, target_id) ==
    LET sanitised_target_id == IF target_id.given THEN target_id.id ELSE 0 - 1 IN
    TARGETED_MAIL_ACTION_SYMBOL \o <<":", "p", ":">> \o FormatInt(project) \o <<":">>
        \o target_type \o <<":">> \o FormatInt(sanitised_target_id)

unsplit_key(plugin, project) == plugin \o <<":", "p", ":">> \o FormatInt(project)

\* ------------------------------------------------------------ fetch_state
\* A model instance loaded from its table row: no back reference, no counters yet
LoadGroup(row) ==
    [project_id |-> row.project_id, status |-> row.status, project |-> 0,
     event_count |-> 0, user_count |-> 0]

LoadRule(row) == [project_id |-> row.project_id, project |-> 0]

\* Group.objects.in_bulk(ids): the rows that exist among ids, keyed by id
Group_in_bulk(ids) == [id \in ids \cap DOMAIN Group_objects |-> LoadGroup(Group_objects[id])]

\* Rule.objects.in_bulk(ids)
Rule_in_bulk(ids) == [id \in ids \cap DOMAIN Rule_objects |-> LoadRule(Rule_objects[id])]

\* tsdb.get_sums / get_distinct_counts_totals: one total per requested key
get_sums(series, keys) == [id \in keys |-> IF id \in DOMAIN series THEN series[id] ELSE 0]

fetch_state(project, recs) ==
    LET groups == Group_in_bulk({recs[i].group_id : i \in 1..Len(recs)})
    IN  [given |-> TRUE,
         project |-> project,
         groups |-> groups,
         rules |-> Rule_in_bulk(UNION {Range(recs[i].rules) : i \in 1..Len(recs)}),
         event_counts |-> get_sums(tsdb.events, DOMAIN groups),
         user_counts |-> get_sums(tsdb.users, DOMAIN groups)]

\* ----------------------------------------------------------- attach_state
\* The group loop as it would be if it left the counters as it found them
RECURSIVE AttachGroups_keep_counts(_, _, _)
AttachGroups_keep_counts(project, groups, order) ==
    IF order = <<>> THEN [fault |-> "ok", groups |-> groups]
    ELSE IF groups[Head(order)].project_id # project
         THEN [fault |-> "AssertionError", groups |-> groups]
         ELSE AttachGroups_keep_counts(project,
                                       [groups EXCEPT ![Head(order)].project = project],
                                       Tail(order))

\* for id, group in six.iteritems(groups): assert, back reference, zero counters
RECURSIVE AttachGroups(_, _, _)
AttachGroups(project, groups, order) ==
    IF order = <<>> THEN [fault |-> "ok", groups |-> groups]
    ELSE IF groups[Head(order)].project_id # project
         THEN [fault |-> "AssertionError", groups |-> groups]
         ELSE AttachGroups(project,
                           [groups EXCEPT ![Head(order)].project = project,
                                          ![Head(order)].event_count = 0,
                                          ![Head(order)].user_count = 0],
                           Tail(order))

\* The rule loop as it would be without its assertion
RECURSIVE AttachRules_unchecked(_, _, _)
AttachRules_unchecked(project, rules, order) ==
    IF order = <<>> THEN [fault |-> "ok", rules |-> rules]
    ELSE AttachRules_unchecked(project, [rules EXCEPT ![Head(order)].project = project],
                               Tail(order))

\* for id, rule in six.iteritems(rules): assert, back reference
RECURSIVE AttachRules(_, _, _)
AttachRules(project, rules, order) ==
    IF order = <<>> THEN [fault |-> "ok", rules |-> rules]
    ELSE IF rules[Head(order)].project_id # project
         THEN [fault |-> "AssertionError", rules |-> rules]
         ELSE AttachRules(project, [rules EXCEPT ![Head(order)].project = project],
                          Tail(order))

\* for id, event_count in six.iteritems(event_counts): groups[id].event_count = ...
RECURSIVE OverlayEventCounts(_, _, _)
OverlayEventCounts(groups, event_counts, order) ==
    IF order = <<>> THEN [fault |-> "ok", groups |-> groups]
    ELSE IF Head(order) \notin DOMAIN groups
         THEN [fault |-> "KeyError", groups |-> groups]
         ELSE OverlayEventCounts(
                  [groups EXCEPT ![Head(order)].event_count = event_counts[Head(order)]],
                  event_counts, Tail(order))

\* for id, user_count in six.iteritems(user_counts): groups[id].user_count = ...
RECURSIVE OverlayUserCounts(_, _, _)
OverlayUserCounts(groups, user_counts, order) ==
    IF order = <<>> THEN [fault |-> "ok", groups |-> groups]
    ELSE IF Head(order) \notin DOMAIN groups
         THEN [fault |-> "KeyError", groups |-> groups]
         ELSE OverlayUserCounts(
                  [groups EXCEPT ![Head(order)].user_count = user_counts[Head(order)]],
                  user_counts, Tail(order))

\* attach_state(**state); gperm and rperm are the orders in which the runtime
\* iterates dicts keyed by group ids and by rule ids.  The result carries the
\* objects as the call left them, also when it raised part way.
attach_state(project, groups, rules, event_counts, user_counts, gperm, rperm) ==
    LET g1 == AttachGroups(project, groups, IterKeys(groups, gperm))
        r1 == AttachRules(project, rules, IterKeys(rules, rperm))
        g2 == OverlayEventCounts(g1.groups, event_counts, IterKeys(event_counts, gperm))
        g3 == OverlayUserCounts(g2.groups, user_counts, IterKeys(user_counts, gperm))
    IN  IF g1.fault # "ok" THEN [fault |-> g1.fault, groups |-> g1.groups, rules |-> rules]
        ELSE IF r1.fault # "ok" THEN [fault |-> r1.fault, groups |-> g1.groups, rules |-> r1.rules]
        ELSE IF g2.fault # "ok" THEN [fault |-> g2.fault, groups |-> g2.groups, rules |-> r1.rules]
        ELSE [fault |-> g3.fault, groups |-> g3.groups, rules |-> r1.rules]

\* -------------------------------------------------------- pipeline stages
\* What rewrite_record returns for a record it cannot associate with a group
None == [key |-> 0, group |-> 0, rules |-> <<>>]

\* rewrite_record as it would be if it skipped an event that already carries a group
rewrite_record_once(record, groups, rules) ==
    IF record.group_id \in DOMAIN groups /\ record.group = 0
    THEN [key |-> record.key, group |-> record.group_id,
          rules |-> SelectSeq(record.rules, LAMBDA id : id \in DOMAIN rules)]
    ELSE None

\* rewrite_record(record, project, groups, rules): the record rebuilt around its
\* group and the rules that resolve, or None
rewrite_record(record, groups, rules) ==
    IF record.group_id \in DOMAIN groups
    THEN [key |-> record.key, group |-> record.group_id,
          rules |-> SelectSeq(record.rules, LAMBDA id : id \in DOMAIN rules)]
    ELSE None

\* rewrite_record's write to the caller's event: event.group = group
reattach_group(record, groups) ==
    IF record.group_id \in DOMAIN groups
    THEN [record EXCEPT !.group = record.group_id]
    ELSE record

\* check_group_state as it would be if it tested for the wrong status constant
check_group_state_not_ignored(record, groups) == groups[record.group].status # "IGNORED"

\* check_group_state(record): event.group.get_status() == GroupStatus.UNRESOLVED
check_group_state(record, groups) == groups[record.group].status = "UNRESOLVED"

\* d[k] of a defaultdict kept as a sequence of entries [k, v]: the entry's place
Find(d, k) == IF \E i \in 1..Len(d) : d[i].k = k
              THEN CHOOSE i \in 1..Len(d) : d[i].k = k
              ELSE 0

\* groups[rule][group].append(record): missing keys are created at the end
AppendLeaf(groups, rule, group, record) ==
    LET i == Find(groups, rule) IN
    IF i = 0
    THEN Append(groups, [k |-> rule, v |-> <<[k |-> group, v |-> <<record>>]>>])
    ELSE LET j == Find(groups[i].v, group) IN
         IF j = 0
         THEN [groups EXCEPT ![i].v = Append(@, [k |-> group, v |-> <<record>>])]
         ELSE [groups EXCEPT ![i].v[j].v = Append(@, record)]

\* group_records as it would be if it filed a record under its first rule only
group_records_first_rule(groups, record) ==
    IF record.rules = <<>> THEN groups
    ELSE AppendLeaf(groups, Head(record.rules), record.group, record)

\* group_records(groups, record): for rule in rules: groups[rule][group].append(record)
RECURSIVE GroupUnder(_, _, _)
GroupUnder(groups, rules, record) ==
    IF rules = <<>> THEN groups
    ELSE GroupUnder(AppendLeaf(groups, Head(rules), record.group, record),
                    Tail(rules), record)

group_records(groups, record) == GroupUnder(groups, record.rules, record)

\* d.items() / six.iteritems(d) of a plain dict or defaultdict keyed by model
\* objects (hash(pk)): insertion order where dicts keep it, and otherwise the
\* slot order of the hash table, which for small integer hashes is ascending
Items(d) ==
    IF dict_ordered THEN d
    ELSE [i \in 1..Len(d) |->
             CHOOSE e \in Range(d) : Cardinality({f \in Range(d) : f.k <= e.k}) = i]

\* One step of sorted(...)[::-1]: e goes before every element whose key is not
\* greater, so equal keys come out reversed
InsertDescending_unstable(s, e) ==
    LET p == Cardinality({i \in 1..Len(s) : TupleLess(e.key, s[i].key)})
    IN  SubSeq(s, 1, p) \o <<e>> \o SubSeq(s, p + 1, Len(s))

\* One step of sorted(..., reverse=True): e goes behind every element whose key
\* is not smaller, so equal keys keep the order they arrived in
InsertDescending(s, e) ==
    LET p == Cardinality({i \in 1..Len(s) : ~TupleLess(s[i].key, e.key)})
    IN  SubSeq(s, 1, p) \o <<e>> \o SubSeq(s, p + 1, Len(s))

\* sorted(items, key=..., reverse=True) over items paired with their keys
RECURSIVE sorted_reverse(_)
sorted_reverse(keyed) ==
    IF keyed = <<>> THEN <<>>
    ELSE InsertDescending(sorted_reverse(SubSeq(keyed, 1, Len(keyed) - 1)),
                          keyed[Len(keyed)])

Unkey(keyed) == [i \in 1..Len(keyed) |-> keyed[i].item]

\* The group sort key as it would be without the user count
GroupKey_event_count_only(item, groups) == <<groups[item.k].event_count>>

\* key=lambda x: (x[0].event_count, x[0].user_count)
GroupKey(item, groups) == <<groups[item.k].event_count, groups[item.k].user_count>>

\* key=lambda x: len(x[1])
RuleKey(item) == <<Len(item.v)>>

\* sort_group_contents(rules): each rule's groups become an OrderedDict sorted
\* by (event_count, user_count), largest first
sort_group_contents(rules, groups) ==
    [r \in 1..Len(rules) |->
        [k |-> rules[r].k,
         v |-> LET items == Items(rules[r].v) IN
               Unkey(sorted_reverse([i \in 1..Len(items) |->
                   [key |-> GroupKey(items[i], groups), item |-> items[i]]]))]]

\* sort_rule_groups(rules): an OrderedDict of the rules, most groups first
sort_rule_groups(rules) ==
    LET items == Items(rules) IN
    Unkey(sorted_reverse([i \in 1..Len(items) |->
        [key |-> RuleKey(items[i]), item |-> items[i]]]))

\* ---------------------------------------------------------------- Pipeline
\* Pipeline.map / filter / reduce / apply: each appends one operation
Pipeline_map(operations, function) == Append(operations, [kind |-> "map", function |-> function])
Pipeline_filter(operations, function) == Append(operations, [kind |-> "filter", function |-> function])
Pipeline_reduce(operations, function) == Append(operations, [kind |-> "reduce", function |-> function])
Pipeline_apply(operations, function) == Append(operations, [kind |-> "apply", function |-> function])

\* filter(bool) as it would be if it stopped at the first falsy element
RECURSIVE filter_bool_takewhile(_)
filter_bool_takewhile(sequence) ==
    IF sequence = <<>> \/ Head(sequence) = None THEN <<>>
    ELSE <<Head(sequence)>> \o filter_bool_takewhile(Tail(sequence))

\* Pipeline.filter's operation: [s for s in sequence if function(s)], function = bool
filter_bool(sequence) == SelectSeq(sequence, LAMBDA s : s # None)

\* Pipeline.filter's operation with function = check_group_state
filter_check_group_state(sequence, groups) ==
    SelectSeq(sequence, LAMBDA s : check_group_state(s, groups))

\* reduce(function, sequence, initializer(sequence)) with function = group_records
\* and initializer = lambda sequence: defaultdict(lambda: defaultdict(list))
RECURSIVE ReduceRecords(_, _)
ReduceRecords(acc, sequence) ==
    IF sequence = <<>> THEN acc
    ELSE ReduceRecords(group_records(acc, Head(sequence)), Tail(sequence))

\* The closure one builder call appended, applied to the current sequence; st is
\* the attached state the stage functions were bound to
Operation(op, sequence, st) ==
    CASE op.kind = "map" /\ op.function = "rewrite_record" ->
            [i \in 1..Len(sequence) |-> rewrite_record(sequence[i], st.groups, st.rules)]
      [] op.kind = "filter" /\ op.function = "bool" ->
            filter_bool(sequence)
      [] op.kind = "filter" /\ op.function = "check_group_state" ->
            filter_check_group_state(sequence, st.groups)
      [] op.kind = "reduce" /\ op.function = "group_records" -> ReduceRecords(<<>>, sequence)
      [] op.kind = "apply" /\ op.function = "sort_group_contents" ->
            sort_group_contents(sequence, st.groups)
      [] op.kind = "apply" /\ op.function = "sort_rule_groups" ->
            sort_rule_groups(sequence)

\* Pipeline.__call__: reduce(lambda x, operation: operation(x), self.operations, sequence)
RECURSIVE Pipeline_call(_, _, _)
Pipeline_call(operations, sequence, st) ==
    IF operations = <<>> THEN sequence
    ELSE Pipeline_call(Tail(operations), Operation(Head(operations), sequence, st), st)

\* The pipeline build_digest assembles
DigestPipeline ==
    Pipeline_apply(
      Pipeline_apply(
        Pipeline_reduce(
          Pipeline_filter(
            Pipeline_filter(
              Pipeline_map(<<>>, "rewrite_record"),
              "bool"),
            "check_group_state"),
          "group_records"),
        "sort_group_contents"),
      "sort_rule_groups")

\* What one invocation leaves behind: kind is "digest", "None" or the fault raised
\* (before: the group objects of the caller's bundle as the call found them)
Outcome(call, kind, value, fetched, attach, ran, grouped, before) ==
    [call |-> call, kind |-> kind, value |-> value, fetched |-> fetched,
     attach |-> attach, ran |-> ran, grouped |-> grouped, before |-> before]

\* The guard as it would be if it also let a batch of one record go
NoRecords_or_one(recs) == Len(recs) <= 1

\* if not records: return
NoRecords(recs) == recs = <<>>

StageNames(operations) == [i \in 1..Len(operations) |-> operations[i].function]

\* The pipeline invoked on the batch: its result, the stages that ran, the
\* mapping as the fold left it (before the sorts), and the events as rewritten
RunPipeline(call, operations, recs, st, fetched, attach, before) ==
    [outcome |-> Outcome(call, "digest", Pipeline_call(operations, recs, st), fetched,
                         attach, StageNames(operations),
                         Pipeline_call(SubSeq(operations, 1, 4), recs, st), before),
     records |-> [i \in 1..Len(recs) |-> reattach_group(recs[i], st.groups)]]

\* ------------------------------------------------------------ build_digest
NoPipeline == [operations |-> <<>>]
NoAttached == [groups |-> EmptyDict, rules |-> EmptyDict]

build_digest(project, recs, arg, gperm, rperm) ==
    IF NoRecords(recs)
    THEN [outcome |-> Outcome("build_digest", "None", <<>>, FALSE, FALSE, <<>>, <<>>, arg.groups),
          records |-> recs, state |-> arg, pipeline |-> pipeline, attached |-> attached]
    ELSE
    LET bundle == IF arg.given THEN arg ELSE fetch_state(project, recs)
        att == attach_state(bundle.project, bundle.groups, bundle.rules,
                            bundle.event_counts, bundle.user_counts, gperm, rperm)
        st == [groups |-> att.groups, rules |-> att.rules]
        \* the caller's bundle holds the very objects attach_state wrote to
        after == IF arg.given THEN [arg EXCEPT !.groups = att.groups, !.rules = att.rules]
                 ELSE arg
    IN  IF att.fault # "ok"
        THEN [outcome |-> Outcome("build_digest", att.fault, <<>>, ~arg.given, TRUE, <<>>, <<>>,
                                   arg.groups),
              records |-> recs, state |-> after, pipeline |-> pipeline, attached |-> attached]
        ELSE LET run == RunPipeline("build_digest", DigestPipeline, recs, st, ~arg.given, TRUE,
                                    arg.groups)
             IN  [outcome |-> run.outcome, records |-> run.records, state |-> after,
                  pipeline |-> [operations |-> DigestPipeline], attached |-> st]

\* ------------------------------------------------------------------ inputs
\* Batches of at most MaxRecords records; a record's key is its event's id, and
\* its event carries no group yet
Batches ==
    UNION {{[i \in 1..n |-> [key |-> i, group_id |-> g[i], rules |-> r[i], group |-> 0]] :
                g \in [1..n -> GroupIds], r \in [1..n -> RuleLists]} : n \in 0..MaxRecords}

Dicts(Keys, Values) == UNION {[D -> Values] : D \in SUBSET Keys}

NoState ==
    [given |-> FALSE, project |-> 1, groups |-> EmptyDict, rules |-> EmptyDict,
     event_counts |-> EmptyDict, user_counts |-> EmptyDict]

NoArgs == [kind |-> "none", plugin |-> <<>>, project |-> 0, target_type |-> <<>>,
           target_id |-> NoTarget]

NoCall == [call |-> "none", result |-> Raised("none")]

NoKey ==
    /\ key = <<>>
    /\ args = NoArgs
    /\ decoded = NoCall

Idle ==
    /\ pipeline = NoPipeline
    /\ attached = NoAttached
    /\ results = <<>>
    /\ NoKey

\* build_digest(project, records): the state is fetched.  The tables hold rows of
\* the project for some of the ids the batch refers to (no other row is read).
InitFetch ==
    /\ records \in Batches
    /\ dict_ordered \in BOOLEAN
    /\ Group_objects \in Dicts({records[i].group_id : i \in 1..Len(records)},
                               [project_id : {1}, status : Statuses])
    /\ Rule_objects \in Dicts(UNION {Range(records[i].rules) : i \in 1..Len(records)},
                              [project_id : {1}])
    /\ tsdb \in [events : [DOMAIN Group_objects -> 0..MaxCount],
                 users : [DOMAIN Group_objects -> 0..MaxCount]]
    /\ state = NoState
    /\ Idle

\* ----------------------------------------------------------------- actions
\* The orders in which the runtime may iterate a dict with these keys
KeyOrders(keys) == Perms(keys)

\* build_digest(project, records, state)
BuildDigest ==
    /\ Len(results) < MaxRuns
    /\ LET bundle == IF state.given THEN state ELSE fetch_state(state.project, records) IN
       \E gperm \in KeyOrders(DOMAIN bundle.groups \cup DOMAIN bundle.event_counts
                                 \cup DOMAIN bundle.user_counts),
          rperm \in KeyOrders(DOMAIN bundle.rules) :
          LET out == build_digest(state.project, records, state, gperm, rperm) IN
          /\ results' = Append(results, out.outcome)
          /\ records' = out.records
          /\ state' = out.state
          /\ pipeline' = out.pipeline
          /\ attached' = out.attached
    /\ UNCHANGED <<Group_objects, Rule_objects, tsdb, dict_ordered, key_vars>>

\* build_digest called once on the batch
FirstBuild == results = <<>> /\ BuildDigest

\* pipeline(records) once more, on the Pipeline the last build assembled
PipelineCall ==
    /\ Len(results) < MaxRuns
    /\ pipeline.operations # <<>>
    /\ LET run == RunPipeline("pipeline", pipeline.operations, records, attached, FALSE, FALSE,
                              state.groups) IN
          /\ results' = Append(results, run.outcome)
          /\ records' = run.records
    /\ UNCHANGED <<Group_objects, Rule_objects, tsdb, state, dict_ordered, pipeline, attached,
                   key_vars>>

\* The example of the specification's section 8: three records, one per entity,
\* all matched by rule 1 only, entities with (event, user) counts (10,2), (5,9),
\* (5,1); the batch lists the entities in any order
InitExample ==
    /\ \E p \in Perms({1, 2, 3}) :
          records = [i \in 1..3 |-> [key |-> i, group_id |-> p[i], rules |-> <<1>>, group |-> 0]]
    /\ dict_ordered \in BOOLEAN
    /\ Group_objects = [id \in {1, 2, 3} |-> [project_id |-> 1, status |-> "UNRESOLVED"]]
    /\ Rule_objects = [id \in {1} |-> [project_id |-> 1]]
    /\ tsdb = [events |-> <<10, 5, 5>>, users |-> <<2, 9, 1>>]
    /\ state = NoState
    /\ Idle

\* The batch again with the state the caller fetched beforehand
InitRerun ==
    /\ records \in Batches
    /\ dict_ordered \in BOOLEAN
    /\ Group_objects \in Dicts({records[i].group_id : i \in 1..Len(records)},
                               [project_id : {1}, status : Statuses])
    /\ Rule_objects \in Dicts(UNION {Range(records[i].rules) : i \in 1..Len(records)},
                              [project_id : {1}])
    /\ tsdb \in [events : [DOMAIN Group_objects -> 0..MaxCount],
                 users : [DOMAIN Group_objects -> 0..MaxCount]]
    /\ state \in {NoState, fetch_state(1, records)}
    /\ Idle

NextRerun == BuildDigest \/ PipelineCall

\* One build per batch, state fetched
SpecDigest == (InitFetch \/ InitExample) /\ [][FirstBuild]_vars

\* Two invocations per batch: build_digest twice, or build_digest and then its
\* pipeline once more
SpecRerun == InitRerun /\ [][NextRerun]_vars

\* attach_state(**state) called on a bundle the caller holds
AttachState ==
    /\ results = <<>>
    /\ state.given
    /\ \E gperm \in KeyOrders(DOMAIN state.groups \cup DOMAIN state.event_counts
                                \cup DOMAIN state.user_counts),
          rperm \in KeyOrders(DOMAIN state.rules) :
          LET att == attach_state(state.project, state.groups, state.rules,
                                  state.event_counts, state.user_counts, gperm, rperm) IN
          /\ results' = <<Outcome("attach_state",
                                  IF att.fault = "ok" THEN "attached" ELSE att.fault,
                                  <<>>, FALSE, TRUE, <<>>, <<>>, state.groups)>>
          /\ state' = [state EXCEPT !.groups = att.groups, !.rules = att.rules]
          /\ attached' = IF att.fault = "ok"
                         THEN [groups |-> att.groups, rules |-> att.rules]
                         ELSE attached
    /\ UNCHANGED <<Group_objects, Rule_objects, tsdb, records, dict_ordered, pipeline, key_vars>>

\* Group objects a caller may hold: of the project or of another one, with
\* counters left over from an earlier use (both zero, or both MaxCount)
HeldGroups ==
    {[project_id |-> 1, status |-> st, project |-> 0, event_count |-> c, user_count |-> c] :
         st \in Statuses, c \in {0, MaxCount}}
    \cup {[project_id |-> 2, status |-> "UNRESOLVED", project |-> 0,
           event_count |-> 0, user_count |-> 0]}

HeldRules == [project_id : {1, 2}, project : {0}]

HeldBatches ==
    {<<>>,
     <<[key |-> 1, group_id |-> 1, rules |-> <<1>>, group |-> 0]>>,
     <<[key |-> 1, group_id |-> 2, rules |-> <<2, 1>>, group |-> 0]>>}

\* build_digest(project, records, state) and attach_state(**state) with a bundle
\* the caller made up: any owner on any group or rule, count entries for any id
InitState ==
    /\ records \in HeldBatches
    /\ dict_ordered \in BOOLEAN
    /\ Group_objects = EmptyDict
    /\ Rule_objects = EmptyDict
    /\ tsdb = [events |-> EmptyDict, users |-> EmptyDict]
    /\ state \in {NoState} \cup
                 [given : {TRUE}, project : {1},
                  groups : Dicts(GroupIds, HeldGroups),
                  rules : Dicts(RuleIds, HeldRules),
                  event_counts : Dicts(GroupIds, 0..MaxCount),
                  user_counts : Dicts(GroupIds, 1..MaxCount)]
    /\ Idle

NextState == FirstBuild \/ AttachState

\* One call per bundle: build_digest or attach_state
SpecState == InitState /\ [][NextState]_vars

\* ------------------------------------------------------- key codec actions
InitKeys ==
    /\ NoKey
    /\ records = <<>>
    /\ dict_ordered = TRUE
    /\ Group_objects = EmptyDict
    /\ Rule_objects = EmptyDict
    /\ tsdb = [events |-> EmptyDict, users |-> EmptyDict]
    /\ state = NoState
    /\ pipeline = NoPipeline
    /\ attached = NoAttached
    /\ results = <<>>

\* unsplit_key(plugin, project)
UnsplitKey ==
    /\ \E plugin \in Slugs, project \in Projects :
          /\ key' = unsplit_key(plugin, project)
          /\ args' = [kind |-> "plugin", plugin |-> plugin, project |-> project,
                      target_type |-> <<>>, target_id |-> NoTarget]
    /\ decoded' = NoCall
    /\ UNCHANGED digest_vars

\* unsplit_key_for_targeted_action(project, target_type, target_id)
UnsplitKeyForTargetedAction ==
    /\ \E project \in Projects, target_type \in TargetTypes, target_id \in TargetIds :
          /\ key' = unsplit_key_for_targeted_action(project, target_type, target_id)
          /\ args' = [kind |-> "targeted", plugin |-> MailAdapter, project |-> project,
                      target_type |-> target_type, target_id |-> target_id]
    /\ decoded' = NoCall
    /\ UNCHANGED digest_vars

\* split_key(key) on the key last encoded
SplitKey ==
    /\ args.kind # "none"
    /\ decoded = NoCall
    /\ decoded' = [call |-> "split_key", result |-> split_key(key)]
    /\ UNCHANGED <<key, args>>
    /\ UNCHANGED digest_vars

\* split_key_for_targeted_action(key) on the key last encoded
SplitKeyForTargetedAction ==
    /\ args.kind # "none"
    /\ decoded = NoCall
    /\ decoded' = [call |-> "split_key_for_targeted_action",
                   result |-> split_key_for_targeted_action(key)]
    /\ UNCHANGED <<key, args>>
    /\ UNCHANGED digest_vars

NextKeys ==
    \/ UnsplitKey
    \/ UnsplitKeyForTargetedAction
    \/ SplitKey
    \/ SplitKeyForTargetedAction

SpecKeys == InitKeys /\ [][NextKeys]_vars

\* ============================================================= properties
\* The digests returned so far
Digests == {n \in 1..Len(results) : results[n].kind = "digest"}

\* Keys of the records in the leaf list of (rule, group) of a mapping, in order
Leaf(mapping, rule, group) ==
    IF Find(mapping, rule) = 0 THEN <<>>
    ELSE LET inner == mapping[Find(mapping, rule)].v IN
         IF Find(inner, group) = 0 THEN <<>>
         ELSE [i \in 1..Len(inner[Find(inner, group)].v) |-> inner[Find(inner, group)].v[i].key]

\* Every rule and group id a batch or a bundle may mention
AllGroupIds == {records[i].group_id : i \in 1..Len(records)} \cup DOMAIN attached.groups
AllRuleIds == UNION {Range(records[i].rules) : i \in 1..Len(records)} \cup DOMAIN attached.rules

\* A mapping is a mapping: no key twice at either level
IsMapping(mapping) ==
    /\ \A i, j \in 1..Len(mapping) : mapping[i].k = mapping[j].k => i = j
    /\ \A r \in 1..Len(mapping) :
          \A i, j \in 1..Len(mapping[r].v) : mapping[r].v[i].k = mapping[r].v[j].k => i = j

\* Record i of the batch refers to a group the attached state does not hold
Dropped(i) == records[i].group_id \notin DOMAIN attached.groups

\* Record i survives both filters
Survives(i) ==
    /\ records[i].group_id \in DOMAIN attached.groups
    /\ attached.groups[records[i].group_id].status = "UNRESOLVED"

\* C2: in every digest returned for a non-empty batch, every leaf record list is
\* non-empty and every group that is a second-level key is UNRESOLVED in the
\* attached state.
C2_LeavesNonEmptyAndUnresolved ==
    \A n \in Digests :
        \A r \in 1..Len(results[n].value) :
            \A g \in 1..Len(results[n].value[r].v) :
                /\ results[n].value[r].v[g].v # <<>>
                /\ results[n].value[r].v[g].k \in DOMAIN attached.groups
                /\ attached.groups[results[n].value[r].v[g].k].status = "UNRESOLVED"

\* C2 witness: a digest with a leaf, built from a batch that also held a record of
\* a RESOLVED group.
C2_Witness ==
    /\ Digests # {}
    /\ \E n \in Digests : results[n].value # <<>>
    /\ \E i \in 1..Len(records) :
          /\ records[i].group_id \in DOMAIN attached.groups
          /\ attached.groups[records[i].group_id].status = "RESOLVED"
          /\ records[i].rules # <<>>

\* (event_count, user_count) of group a is lexicographically greater than of b
CountsGreater(a, b) ==
    \/ attached.groups[a].event_count > attached.groups[b].event_count
    \/ /\ attached.groups[a].event_count = attached.groups[b].event_count
       /\ attached.groups[a].user_count > attached.groups[b].user_count

\* C3: in every digest, a rule with strictly more groups than another comes
\* before it, and under one rule a group whose (event_count, user_count) is
\* lexicographically greater than another's comes before it; the section 8
\* example comes out as (10,2), (5,9), (5,1).
C3_SortInvariant ==
    \A n \in Digests :
        LET d == results[n].value IN
        /\ \A i, j \in 1..Len(d) : Len(d[i].v) > Len(d[j].v) => i < j
        /\ \A r \in 1..Len(d) :
              \A i, j \in 1..Len(d[r].v) :
                  CountsGreater(d[r].v[i].k, d[r].v[j].k) => i < j
        /\ (tsdb.events = <<10, 5, 5>> /\ tsdb.users = <<2, 9, 1>>)
              => /\ Len(d) = 1
                 /\ [i \in 1..Len(d[1].v) |-> d[1].v[i].k] = <<1, 2, 3>>

\* C3 witness: the section 8 example, its batch listing the entities in the
\* opposite order, has been digested.
C3_Witness ==
    /\ Digests # {}
    /\ tsdb.events = <<10, 5, 5>> /\ tsdb.users = <<2, 9, 1>>
    /\ [i \in 1..Len(records) |-> records[i].group_id] = <<3, 2, 1>>
    /\ \E n \in Digests : Len(results[n].value) = 1 /\ Len(results[n].value[1].v) = 3

\* The rule ids of record i that resolve in the attached state
ResolvedRules(i) == Range(records[i].rules) \cap DOMAIN attached.rules

\* C6: a record whose event's group id is absent from the attached groups is in
\* no leaf list of the digest, the build still returns a digest (no fault), and
\* every other record that survives the filters is grouped under each of its
\* resolved rules.
C6_DroppedRecord ==
    \A n \in 1..Len(results) :
        \A i \in 1..Len(records) :
            (results[n].attach /\ Dropped(i)) =>
                /\ results[n].kind = "digest"
                /\ \A r \in AllRuleIds, e \in AllGroupIds :
                      i \notin Range(Leaf(results[n].value, r, e))
                /\ \A j \in 1..Len(records) :
                      Survives(j) =>
                          \A r \in ResolvedRules(j) :
                              j \in Range(Leaf(results[n].value, r, records[j].group_id))

\* C6 witness: a batch whose first record was dropped for want of a group and
\* whose second record was grouped.
C6_Witness ==
    /\ Len(results) = 1 /\ results[1].kind = "digest"
    /\ Len(records) = 2
    /\ Dropped(1)
    /\ Survives(2) /\ ResolvedRules(2) # {}
    /\ results[1].value # <<>>

\* C9: a record is in the leaf list of (rule r, group e) exactly when e is the
\* group its event's group id resolves to, e is UNRESOLVED and r is one of its
\* rule ids that resolve; each level has no key twice; and a leaf lists its
\* records in batch order.
C9_GroupingMembership ==
    \A n \in Digests :
        LET d == results[n].value IN
        /\ IsMapping(d)
        /\ \A r \in 1..Len(d) : d[r].k \in AllRuleIds
                                /\ \A g \in 1..Len(d[r].v) : d[r].v[g].k \in AllGroupIds
        /\ \A i \in 1..Len(records), r \in AllRuleIds, e \in AllGroupIds :
              i \in Range(Leaf(d, r, e))
                  <=> (e = records[i].group_id /\ Survives(i) /\ r \in ResolvedRules(i))
        /\ \A r \in AllRuleIds, e \in AllGroupIds :
              /\ Range(Leaf(d, r, e)) \subseteq 1..Len(records)
              /\ \A a, b \in 1..Len(Leaf(d, r, e)) :
                    a < b => Leaf(d, r, e)[a] <= Leaf(d, r, e)[b]

\* C9 witness: one record grouped under its only resolving rule while another of
\* its rule ids did not resolve, beside a record none of whose rule ids resolve.
C9_Witness ==
    /\ Len(results) = 1 /\ results[1].kind = "digest"
    /\ \E i, j \in 1..Len(records) :
          /\ Survives(i) /\ Len(records[i].rules) = 2 /\ Cardinality(ResolvedRules(i)) = 1
          /\ Survives(j) /\ records[j].rules # <<>> /\ ResolvedRules(j) = {}
    /\ results[1].value # <<>>

\* Same (event_count, user_count)
CountsEqual(a, b) ==
    /\ attached.groups[a].event_count = attached.groups[b].event_count
    /\ attached.groups[a].user_count = attached.groups[b].user_count

\* C10: rules with equally many groups, and groups of one rule with
\* equal (event_count, user_count), come out in the order in which the unsorted
\* mapping enumerates them; the sorts reverse no pair of equal keys.
C10_TiesKeepEnumerationOrder ==
    \A n \in Digests :
        LET d == results[n].value
            g == results[n].grouped
        IN
        /\ \A i, j \in 1..Len(d) :
              (i < j /\ Len(d[i].v) = Len(d[j].v))
                  => Find(Items(g), d[i].k) < Find(Items(g), d[j].k)
        /\ \A r \in 1..Len(d) :
              LET before == Items(g[Find(g, d[r].k)].v) IN
              \A i, j \in 1..Len(d[r].v) :
                  (i < j /\ CountsEqual(d[r].v[i].k, d[r].v[j].k))
                      => Find(before, d[r].v[i].k) < Find(before, d[r].v[j].k)

\* The stronger reading of C10: equal keys come out in the order of first insertion by the
\* grouping fold.
C10_TiesKeepInsertionOrder ==
    \A n \in Digests :
        LET d == results[n].value
            g == results[n].grouped
        IN
        /\ \A i, j \in 1..Len(d) :
              (i < j /\ Len(d[i].v) = Len(d[j].v)) => Find(g, d[i].k) < Find(g, d[j].k)
        /\ \A r \in 1..Len(d) :
              LET before == g[Find(g, d[r].k)].v IN
              \A i, j \in 1..Len(d[r].v) :
                  (i < j /\ CountsEqual(d[r].v[i].k, d[r].v[j].k))
                      => Find(before, d[r].v[i].k) < Find(before, d[r].v[j].k)

\* C10 witness: two groups with equal counters under one rule, first met in the
\* batch in the order 2, 1, and two rules with one group each.
C10_Witness ==
    /\ Len(results) = 1 /\ results[1].kind = "digest"
    /\ \E r \in 1..Len(results[1].value) :
          /\ Len(results[1].value[r].v) = 2
          /\ CountsEqual(1, 2)
          /\ Find(results[1].grouped[Find(results[1].grouped, results[1].value[r].k)].v, 2) = 1

\* C5: a second invocation on the same records and state (build_digest again on
\* the same bundle, or the assembled pipeline called again) returns what the
\* first returned, in the same order.
C5_Idempotent ==
    \A m, n \in 1..Len(results) :
        /\ results[m].kind = results[n].kind
        /\ results[m].value = results[n].value
        /\ results[m].kind = "digest" => pipeline.operations = DigestPipeline

\* C5 witness: build_digest ran twice on a bundle the caller supplied and
\* returned a digest of two groups under one rule.
C5_Witness ==
    /\ Len(results) = 2
    /\ state.given
    /\ results[2].call = "build_digest" /\ results[2].kind = "digest"
    /\ \E r \in 1..Len(results[2].value) : Len(results[2].value[r].v) = 2
    /\ \E i \in 1..Len(records) : records[i].group # 0

\* Every group and rule of the bundle belongs to the bundle's project
OwnerConsistent(bundle) ==
    /\ \A id \in DOMAIN bundle.groups : bundle.groups[id].project_id = bundle.project
    /\ \A id \in DOMAIN bundle.rules : bundle.rules[id].project_id = bundle.project

\* Every count entry is for a group of the bundle
CountsMatched(bundle) ==
    /\ DOMAIN bundle.event_counts \subseteq DOMAIN bundle.groups
    /\ DOMAIN bundle.user_counts \subseteq DOMAIN bundle.groups

Builds == {n \in 1..Len(results) : results[n].call = "build_digest"}
Attaches == {n \in 1..Len(results) : results[n].call = "attach_state"}

\* C1: build_digest returns None exactly for the empty batch, and
\* then neither fetches nor attaches state; for a non-empty batch and an
\* owner-consistent state whose count entries are all for groups of the state it
\* returns a mapping, empty when every record is filtered out; when a count
\* entry is for no group of the state it raises KeyError instead.
C1_NoneIffEmptyBatch ==
    \A n \in Builds :
        /\ results[n].kind = "None" <=> records = <<>>
        /\ records = <<>> => (~results[n].fetched /\ ~results[n].attach
                              /\ state.groups = results[n].before)
        /\ (records # <<>> /\ OwnerConsistent(state) /\ CountsMatched(state))
              => results[n].kind = "digest"
        /\ (records # <<>> /\ OwnerConsistent(state) /\ ~CountsMatched(state))
              => results[n].kind = "KeyError"

\* The stronger reading of C1: every non-empty batch with an owner-consistent state yields a
\* mapping.
C1_MappingForEveryConsistentState ==
    \A n \in Builds :
        /\ results[n].kind = "None" <=> records = <<>>
        /\ (records # <<>> /\ OwnerConsistent(state)) => results[n].kind = "digest"

\* C1 witness: a batch of one record, of a RESOLVED group of the bundle, came
\* back as the empty mapping.
C1_Witness ==
    /\ Builds # {}
    /\ state.given
    /\ Len(records) = 1
    /\ records[1].group_id \in DOMAIN state.groups
    /\ state.groups[records[1].group_id].status = "RESOLVED"
    /\ results[1].kind = "digest" /\ results[1].value = <<>>

\* C7: when the bundle build_digest uses on a non-empty batch holds a group or a
\* rule of another project, referenced or not, the build raises AssertionError,
\* no stage of a pipeline has run and nothing is returned.
C7_OwnershipFault ==
    \A n \in Builds :
        (records # <<>> /\ ~OwnerConsistent(state)) =>
            /\ results[n].kind = "AssertionError"
            /\ results[n].ran = <<>>
            /\ results[n].value = <<>>
            /\ pipeline = NoPipeline

\* C7 witness: the build raised although only a rule no record mentions belongs
\* to another project.
C7_Witness ==
    /\ Builds # {}
    /\ results[1].kind = "AssertionError"
    /\ records # <<>> /\ records[1].rules = <<1>>
    /\ \A id \in DOMAIN state.groups : state.groups[id].project_id = state.project
    /\ 1 \in DOMAIN state.rules /\ state.rules[1].project_id = state.project
    /\ 2 \in DOMAIN state.rules /\ state.rules[2].project_id # state.project

\* The counters attach_state is to leave on group id
Overlaid(bundle, id) ==
    /\ bundle.groups[id].event_count =
          IF id \in DOMAIN bundle.event_counts THEN bundle.event_counts[id] ELSE 0
    /\ bundle.groups[id].user_count =
          IF id \in DOMAIN bundle.user_counts THEN bundle.user_counts[id] ELSE 0

\* C8: given an owner-consistent bundle whose count entries are all
\* for groups of the bundle, attach_state returns with each group's event_count
\* and user_count equal to its entry, or 0 without one, whatever the counters
\* held before; a count entry for no group of the bundle makes it raise KeyError.
C8_CountsOverlaid ==
    \A n \in Attaches :
        OwnerConsistent(state) =>
            IF CountsMatched(state)
            THEN /\ results[n].kind = "attached"
                 /\ \A id \in DOMAIN state.groups : Overlaid(state, id)
            ELSE results[n].kind = "KeyError"

\* The stronger reading of C8: attach_state returns for any count mappings, an entry that
\* matches no group changing nothing.
C8_UnmatchedCountsIgnored ==
    \A n \in Attaches :
        OwnerConsistent(state) =>
            /\ results[n].kind = "attached"
            /\ \A id \in DOMAIN state.groups : Overlaid(state, id)

\* C8 witness: attach_state returned; a group that held MaxCount in both counters
\* and has no event count entry now holds 0 events, another holds its entry.
C8_Witness ==
    /\ Attaches # {}
    /\ results[1].kind = "attached"
    /\ \E id \in DOMAIN state.groups :
          /\ results[1].before[id].event_count = MaxCount
          /\ id \notin DOMAIN state.event_counts
          /\ state.groups[id].event_count = 0
    /\ \E id \in DOMAIN state.groups :
          /\ id \in DOMAIN state.event_counts
          /\ state.event_counts[id] = MaxCount
          /\ results[1].before[id].event_count = 0
          /\ state.groups[id].event_count = MaxCount

\* ---------------------------------------------------------------- C4
\* The part of a string before its first colon, the whole string when it has none
FirstSegment(s) ==
    IF \E i \in 1..Len(s) : s[i] = ":"
    THEN SubSeq(s, 1, (CHOOSE i \in 1..Len(s) : s[i] = ":" /\ \A j \in 1..(i - 1) : s[j] # ":") - 1)
    ELSE s

HasColon(s) == \E i \in 1..Len(s) : s[i] = ":"

GenericRoundTrip ==
    /\ decoded.result.fault = "ok"
    /\ decoded.result.plugin = args.plugin
    /\ decoded.result.project = args.project

TargetedRoundTrip ==
    /\ decoded.result.fault = "ok"
    /\ decoded.result.project = args.project
    /\ decoded.result.target_type = args.target_type
    /\ decoded.result.target_identifier = (IF args.target_id.given THEN args.target_id.id ELSE 0 - 1)

SentinelRule ==
    /\ args.kind = "targeted" => is_targeted_action_key(key)
    /\ args.kind # "none" =>
          (is_targeted_action_key(key) <=> FirstSegment(key) = TARGETED_MAIL_ACTION_SYMBOL)

\* C4: a generic key made from a plugin whose slug has no colon decodes to
\* that plugin and project; a targeted key made with a target type that has
\* no colon decodes to that project, target type and target id, an absent
\* target id decoding to -1; every targeted key is recognised as targeted,
\* and a key is recognised as targeted exactly when its first
\* colon-delimited segment is the sentinel.
C4_RoundTripWithoutColons ==
    /\ (args.kind = "plugin" /\ decoded.call = "split_key" /\ ~HasColon(args.plugin))
          => GenericRoundTrip
    /\ (args.kind = "targeted" /\ decoded.call = "split_key_for_targeted_action"
          /\ ~HasColon(args.target_type))
          => TargetedRoundTrip
    /\ SentinelRule

\* The round trip for every plugin, target type and target id
C4_RoundTrip ==
    /\ (args.kind = "plugin" /\ decoded.call = "split_key") => GenericRoundTrip
    /\ (args.kind = "targeted" /\ decoded.call = "split_key_for_targeted_action")
          => TargetedRoundTrip
    /\ SentinelRule

\* A targeted key encoded without a target id for a project with a
\* two-digit id has been decoded to -1
C4_Witness ==
    /\ args.kind = "targeted"
    /\ ~args.target_id.given
    /\ args.project >= 10
    /\ ~HasColon(args.target_type)
    /\ decoded.call = "split_key_for_targeted_action"
    /\ decoded.result.fault = "ok"
    /\ decoded.result.target_identifier = 0 - 1
    /\ is_targeted_action_key(key)

====
